---- MODULE Spec2Model ----
(***************************************************************************)
(* A model of pyroute2.ipdb.linkedset: LinkedSet and IPaddrSet.            *)
(*                                                                         *)
(* Every call of add / remove / set_target is executed by a thread as a    *)
(* stack of frames.  A frame is one activation of a method on one set; its *)
(* pc is the place in the method body the activation has reached:          *)
(*   "enter"  the activation waits for `with self.lock`                    *)
(*   "links"  the body has mutated self and iterates `self.links`          *)
(*   "check"  the body is about to call check_target() and leave           *)
(*   "exit"   the body leaves without check_target()                       *)
(* unlink / relink / connect / disconnect take no lock and are one step.   *)
(***************************************************************************)
EXTENDS Integers, Sequences, FiniteSets, TLC

VARIABLES
    members,     \* members[s]: the elements of the set object s
    raw,         \* raw[s]: the dict self.raw, a function key -> payload
    links,       \* links[s]: the list self.links
    exclusive,   \* exclusive[s]: the set self.exclusive
    ct,          \* ct[s]: self._ct, <<>> for None, <<T>> for a set T
    target,      \* target[s]: the flag of the threading.Event self.target
    lockOwner,   \* lockOwner[s]: the thread that owns self.lock, 0 if free
    lockCount,   \* lockCount[s]: the recursion level of the RLock self.lock
    cls,         \* cls[s]: the class of s, "LinkedSet" or "IPaddrSet"
    stack,       \* stack[t]: the frames of thread t, innermost last
    exc,         \* exc[t]: the exception thread t is propagating, or "none"
    snap,        \* snap[t]: <<state at the start of t's running call>> or <<>>
    lastTarget,  \* lastTarget[s]: the argument of the latest set_target on s
    held         \* held[s]: the comparison held at an evaluation since then

vars == <<members, raw, links, exclusive, ct, target, lockOwner, lockCount,
          cls, stack, exc, snap, lastTarget, held>>

----------------------------------------------------------------------------
(* Bounds and input domains *)

MaxLinks == 2

AllSets == {"A", "B", "C"}
\* Threads 1 and 2 call the operations of the sets; threads 3 and 4 only wait
\* for the signal of a set
Callers == {1, 2}
Waiters == {3, 4}
AllThreads == Callers \cup Waiters

\* Two keys of the shape IPaddrSet uses: (address, prefixlen).  An address
\* is the sequence of its characters.
KeyLL == << <<"f", "e", "8", "0", ":", ":", "1">>, 64 >>
KeyV4 == << <<"1", "0", ".", "0", ".", "0", ".", "5">>, 24 >>
Keys == {KeyLL, KeyV4}
\* A link-local address with another prefix length, for the filter
KeyLL128 == << <<"f", "e", "8", "0", ":", ":", "1">>, 128 >>
AddrKeys == {KeyLL, KeyV4, KeyLL128}

\* Payloads: the default raw=None and one record.
Raws == {"None", "r1"}

NoKey == <<>>
None == <<>>
Some(v) == <<v>>
TargetValues == {None} \cup {Some(T) : T \in SUBSET Keys}

----------------------------------------------------------------------------
(* Pure helpers *)

Min(a, b) == IF a <= b THEN a ELSE b

\* Python's x[:n] on a sequence
Prefix(x, n) == SubSeq(x, 1, Min(n, Len(x)))

\* LinkedSet.target_filter
BaseFilter(x) == TRUE

\* target_filter that forgets the prefix length
IPaddrFilter_AnyPrefixLen(x) == ~ (Prefix(x[1], 4) = <<"f", "e", "8", "0">>)

\* IPaddrSet.target_filter
IPaddrFilter(x) == ~ ((Prefix(x[1], 4) = <<"f", "e", "8", "0">>) /\ (x[2] = 64))

target_filter(c, x) == IF c = "IPaddrSet" THEN IPaddrFilter(x) ELSE BaseFilter(x)

\* set(filter(self.target_filter, S))
Filtered(c, S) == {x \in S : target_filter(c, x)}

\* raw[key] = value on a dict
DictSet(d, k, v) == [x \in (DOMAIN d) \cup {k} |-> IF x = k THEN v ELSE d[x]]

EmptyDict == [x \in {} |-> "None"]

Top(st) == st[Len(st)]
Pop(st) == SubSeq(st, 1, Len(st) - 1)
SetTop(st, f) == [st EXCEPT ![Len(st)] = f]

Frame(op, s, k, r, casc, v) ==
    [op |-> op, set |-> s, key |-> k, raw |-> r, cascade |-> casc,
     value |-> v, pc |-> "enter", idx |-> 1]

Snapshot == [members |-> members, raw |-> raw, ct |-> ct, target |-> target,
             links |-> links, exclusive |-> exclusive]

----------------------------------------------------------------------------
(* Initial state: LinkedSet.__init__ on every set, all threads idle *)

TypeInit ==
    /\ members = [s \in AllSets |-> {}]
    /\ raw = [s \in AllSets |-> EmptyDict]
    /\ links = [s \in AllSets |-> <<>>]
    /\ exclusive = [s \in AllSets |-> {}]
    /\ ct = [s \in AllSets |-> None]
    /\ target = [s \in AllSets |-> FALSE]
    /\ lockOwner = [s \in AllSets |-> 0]
    /\ lockCount = [s \in AllSets |-> 0]
    /\ stack = [t \in AllThreads |-> <<>>]
    /\ exc = [t \in AllThreads |-> "none"]
    /\ snap = [t \in AllThreads |-> <<>>]
    /\ lastTarget = [s \in AllSets |-> None]
    /\ held = [s \in AllSets |-> FALSE]

----------------------------------------------------------------------------
(* The RLock *)

LockFree(s, t) == lockOwner[s] \in {0, t}

Acquire(s, t) ==
    /\ lockOwner' = [lockOwner EXCEPT ![s] = t]
    /\ lockCount' = [lockCount EXCEPT ![s] = @ + 1]

Release(s) ==
    /\ lockOwner' = [lockOwner EXCEPT ![s] = IF lockCount[s] = 1 THEN 0 ELSE @]
    /\ lockCount' = [lockCount EXCEPT ![s] = @ - 1]

----------------------------------------------------------------------------
(* check_target: the new (_ct, target flag) of a set with members m *)

\* check_target() without `self._ct = None` of line 65
CheckTarget_KeepsTarget(c, m, t, flag) ==
    IF t # None /\ Filtered(c, m) = Filtered(c, t[1])
    THEN <<t, TRUE>>
    ELSE <<t, flag>>

CheckTarget(c, m, t, flag) ==
    IF t # None /\ Filtered(c, m) = Filtered(c, t[1])
    THEN <<None, TRUE>>
    ELSE <<t, flag>>

\* The comparison itself, against the latest declared target (history)
HeldNow(c, m, lt) == lt # None /\ Filtered(c, m) = Filtered(c, lt[1])

----------------------------------------------------------------------------
(* The guarded part of the bodies, run when the lock has been taken.       *)
(* rest is the thread's stack below the entering frame f.                  *)

\* add() whose guard of line 82 forgets `cascade and`
AddBody_ExcludesDirect(t, f, rest) ==
    LET s == f.set IN
    /\ exc' = exc
    /\ UNCHANGED <<ct, target, lastTarget, held>>
    /\ IF f.key \in exclusive[s]
       THEN /\ stack' = [stack EXCEPT ![t] = Append(rest, [f EXCEPT !.pc = "exit"])]
            /\ UNCHANGED <<members, raw>>
       ELSE IF f.key \notin members[s]
       THEN /\ raw' = [raw EXCEPT ![s] = DictSet(@, f.key, f.raw)]
            /\ members' = [members EXCEPT ![s] = @ \cup {f.key}]
            /\ stack' = [stack EXCEPT ![t] = Append(rest, [f EXCEPT !.pc = "links"])]
       ELSE /\ stack' = [stack EXCEPT ![t] = Append(rest, [f EXCEPT !.pc = "check"])]
            /\ UNCHANGED <<members, raw>>

\* add() that stores the payload and walks the links for a key it already holds
AddBody_RefreshesDup(t, f, rest) ==
    LET s == f.set IN
    /\ exc' = exc
    /\ UNCHANGED <<ct, target, lastTarget, held>>
    /\ IF f.cascade /\ f.key \in exclusive[s]
       THEN /\ stack' = [stack EXCEPT ![t] = Append(rest, [f EXCEPT !.pc = "exit"])]
            /\ UNCHANGED <<members, raw>>
       ELSE /\ raw' = [raw EXCEPT ![s] = DictSet(@, f.key, f.raw)]
            /\ members' = [members EXCEPT ![s] = @ \cup {f.key}]
            /\ stack' = [stack EXCEPT ![t] = Append(rest, [f EXCEPT !.pc = "links"])]

\* add(): lines 81-86
AddBody(t, f, rest) ==
    LET s == f.set IN
    /\ exc' = exc
    /\ UNCHANGED <<ct, target, lastTarget, held>>
    /\ IF f.cascade /\ f.key \in exclusive[s]
       THEN /\ stack' = [stack EXCEPT ![t] = Append(rest, [f EXCEPT !.pc = "exit"])]
            /\ UNCHANGED <<members, raw>>
       ELSE IF f.key \notin members[s]
       THEN /\ raw' = [raw EXCEPT ![s] = DictSet(@, f.key, f.raw)]
            /\ members' = [members EXCEPT ![s] = @ \cup {f.key}]
            /\ stack' = [stack EXCEPT ![t] = Append(rest, [f EXCEPT !.pc = "links"])]
       ELSE /\ stack' = [stack EXCEPT ![t] = Append(rest, [f EXCEPT !.pc = "check"])]
            /\ UNCHANGED <<members, raw>>

\* remove() with set.discard in place of set.remove: an absent key is ignored
RemoveBody_Discard(t, f, rest) ==
    LET s == f.set IN
    /\ UNCHANGED <<raw, ct, target, lastTarget, held, exc>>
    /\ IF f.cascade /\ f.key \in exclusive[s]
       THEN /\ stack' = [stack EXCEPT ![t] = Append(rest, [f EXCEPT !.pc = "exit"])]
            /\ UNCHANGED members
       ELSE /\ members' = [members EXCEPT ![s] = @ \ {f.key}]
            /\ stack' = [stack EXCEPT ![t] = Append(rest, [f EXCEPT !.pc = "links"])]

\* remove(): lines 96-99
RemoveBody(t, f, rest) ==
    LET s == f.set IN
    /\ UNCHANGED <<raw, ct, target, lastTarget, held>>
    /\ IF f.cascade /\ f.key \in exclusive[s]
       THEN /\ stack' = [stack EXCEPT ![t] = Append(rest, [f EXCEPT !.pc = "exit"])]
            /\ UNCHANGED <<members, exc>>
       ELSE IF f.key \notin members[s]
       THEN \* set.remove raises KeyError inside `with self.lock`
            /\ exc' = [exc EXCEPT ![t] = "KeyError"]
            /\ stack' = [stack EXCEPT ![t] = Append(rest, [f EXCEPT !.pc = "exit"])]
            /\ UNCHANGED members
       ELSE /\ members' = [members EXCEPT ![s] = @ \ {f.key}]
            /\ stack' = [stack EXCEPT ![t] = Append(rest, [f EXCEPT !.pc = "links"])]
            /\ exc' = exc

\* set_target() without the immediate check_target() of line 53
SetTargetBody_NoCheck(t, f, rest) ==
    LET s == f.set IN
    /\ exc' = exc
    /\ UNCHANGED <<members, raw>>
    /\ lastTarget' = [lastTarget EXCEPT ![s] = f.value]
    /\ held' = [held EXCEPT ![s] = FALSE]
    /\ ct' = [ct EXCEPT ![s] = f.value]
    /\ target' = [target EXCEPT ![s] = FALSE]
    /\ stack' = [stack EXCEPT ![t] = Append(rest, [f EXCEPT !.pc = "exit"])]

\* set_target() whose None branch forgets self.target.clear() of line 45
SetTargetBody_NoneKeepsSignal(t, f, rest) ==
    LET s == f.set IN
    /\ exc' = exc
    /\ UNCHANGED <<members, raw>>
    /\ lastTarget' = [lastTarget EXCEPT ![s] = f.value]
    /\ held' = [held EXCEPT ![s] = FALSE]
    /\ IF f.value = None
       THEN /\ ct' = [ct EXCEPT ![s] = None]
            /\ target' = target
            /\ stack' = [stack EXCEPT ![t] = Append(rest, [f EXCEPT !.pc = "exit"])]
       ELSE /\ ct' = [ct EXCEPT ![s] = f.value]
            /\ target' = [target EXCEPT ![s] = FALSE]
            /\ stack' = [stack EXCEPT ![t] = Append(rest, [f EXCEPT !.pc = "check"])]

\* set_target(): lines 43-49
SetTargetBody(t, f, rest) ==
    LET s == f.set IN
    /\ exc' = exc
    /\ UNCHANGED <<members, raw>>
    /\ lastTarget' = [lastTarget EXCEPT ![s] = f.value]
    /\ held' = [held EXCEPT ![s] = FALSE]
    /\ IF f.value = None
       THEN /\ ct' = [ct EXCEPT ![s] = None]
            /\ target' = [target EXCEPT ![s] = FALSE]
            /\ stack' = [stack EXCEPT ![t] = Append(rest, [f EXCEPT !.pc = "exit"])]
       ELSE /\ ct' = [ct EXCEPT ![s] = f.value]
            /\ target' = [target EXCEPT ![s] = FALSE]
            /\ stack' = [stack EXCEPT ![t] = Append(rest, [f EXCEPT !.pc = "check"])]

\* `with self.lock:` followed by the guarded part of the body
EnterFrame(t, f, rest) ==
    /\ LockFree(f.set, t)
    /\ Acquire(f.set, t)
    /\ UNCHANGED <<links, exclusive, cls>>
    /\ CASE f.op = "add" -> AddBody(t, f, rest)
         [] f.op = "remove" -> RemoveBody(t, f, rest)
         [] f.op = "set_target" -> SetTargetBody(t, f, rest)

----------------------------------------------------------------------------
(* Direct calls by an idle thread *)

Idle(t) == stack[t] = <<>>

AddCall(t, s, k, r) ==
    /\ Idle(t)
    /\ snap' = [snap EXCEPT ![t] = Some(Snapshot)]
    /\ EnterFrame(t, Frame("add", s, k, r, FALSE, None), <<>>)

RemoveCall(t, s, k) ==
    /\ Idle(t)
    /\ snap' = [snap EXCEPT ![t] = Some(Snapshot)]
    /\ EnterFrame(t, Frame("remove", s, k, "None", FALSE, None), <<>>)

SetTargetCall(t, s, v) ==
    /\ Idle(t)
    /\ snap' = [snap EXCEPT ![t] = Some(Snapshot)]
    /\ EnterFrame(t, Frame("set_target", s, NoKey, "None", FALSE, v), <<>>)

\* A direct call that finds the lock taken waits in `with self.lock`; no
\* pre-state is recorded for it
PendingCall(t, op, s, k, v) ==
    /\ Idle(t)
    /\ ~ LockFree(s, t)
    /\ stack' = [stack EXCEPT ![t] = <<Frame(op, s, k, "None", FALSE, v)>>]
    /\ UNCHANGED <<members, raw, links, exclusive, ct, target, lockOwner,
                   lockCount, cls, exc, snap, lastTarget, held>>

\* A cascaded call, pushed by the loop over self.links, takes the lock
NestedEnter(t) ==
    /\ ~ Idle(t)
    /\ exc[t] = "none"
    /\ Top(stack[t]).pc = "enter"
    /\ snap' = snap
    /\ EnterFrame(t, Top(stack[t]), Pop(stack[t]))

----------------------------------------------------------------------------
(* The loop over self.links *)

\* add() that calls link.add(key, raw) without cascade=True
AddLoop_NotCascaded(t) ==
    /\ ~ Idle(t)
    /\ exc[t] = "none"
    /\ LET f == Top(stack[t]) IN
       /\ f.op = "add"
       /\ f.pc = "links"
       /\ f.idx <= Len(links[f.set])
       /\ stack' = [stack EXCEPT ![t] =
              Append(SetTop(@, [f EXCEPT !.idx = @ + 1]),
                     Frame("add", links[f.set][f.idx], f.key, f.raw, FALSE, None))]
    /\ UNCHANGED <<members, raw, links, exclusive, ct, target, lockOwner,
                   lockCount, cls, exc, snap, lastTarget, held>>

\* add() that calls link.add(key, cascade=True) without the payload
AddLoop_DropsRaw(t) ==
    /\ ~ Idle(t)
    /\ exc[t] = "none"
    /\ LET f == Top(stack[t]) IN
       /\ f.op = "add"
       /\ f.pc = "links"
       /\ f.idx <= Len(links[f.set])
       /\ stack' = [stack EXCEPT ![t] =
              Append(SetTop(@, [f EXCEPT !.idx = @ + 1]),
                     Frame("add", links[f.set][f.idx], f.key, "None", TRUE, None))]
    /\ UNCHANGED <<members, raw, links, exclusive, ct, target, lockOwner,
                   lockCount, cls, exc, snap, lastTarget, held>>

\* add(): lines 87-88, one iteration
AddLoop(t) ==
    /\ ~ Idle(t)
    /\ exc[t] = "none"
    /\ LET f == Top(stack[t]) IN
       /\ f.op = "add"
       /\ f.pc = "links"
       /\ f.idx <= Len(links[f.set])
       /\ stack' = [stack EXCEPT ![t] =
              Append(SetTop(@, [f EXCEPT !.idx = @ + 1]),
                     Frame("add", links[f.set][f.idx], f.key, f.raw, TRUE, None))]
    /\ UNCHANGED <<members, raw, links, exclusive, ct, target, lockOwner,
                   lockCount, cls, exc, snap, lastTarget, held>>

\* remove() that calls link.remove(key) without cascade=True
RemoveLoop_NotCascaded(t) ==
    /\ ~ Idle(t)
    /\ exc[t] = "none"
    /\ LET f == Top(stack[t])
           link == links[f.set][f.idx]
           next == SetTop(stack[t], [f EXCEPT !.idx = @ + 1])
       IN
       /\ f.op = "remove"
       /\ f.pc = "links"
       /\ f.idx <= Len(links[f.set])
       /\ stack' = [stack EXCEPT ![t] =
              IF f.key \in members[link]
              THEN Append(next, Frame("remove", link, f.key, "None", FALSE, None))
              ELSE next]
    /\ UNCHANGED <<members, raw, links, exclusive, ct, target, lockOwner,
                   lockCount, cls, exc, snap, lastTarget, held>>

\* remove(): lines 100-102, one iteration
RemoveLoop(t) ==
    /\ ~ Idle(t)
    /\ exc[t] = "none"
    /\ LET f == Top(stack[t])
           link == links[f.set][f.idx]
           next == SetTop(stack[t], [f EXCEPT !.idx = @ + 1])
       IN
       /\ f.op = "remove"
       /\ f.pc = "links"
       /\ f.idx <= Len(links[f.set])
       /\ stack' = [stack EXCEPT ![t] =
              IF f.key \in members[link]
              THEN Append(next, Frame("remove", link, f.key, "None", TRUE, None))
              ELSE next]
    /\ UNCHANGED <<members, raw, links, exclusive, ct, target, lockOwner,
                   lockCount, cls, exc, snap, lastTarget, held>>

----------------------------------------------------------------------------
(* Leaving a body *)

\* The frame on top has run its body to the end of the `with` block
AtEnd(f) ==
    \/ f.pc \in {"check", "exit"}
    \/ f.pc = "links" /\ f.idx > Len(links[f.set])

\* remove() without the check_target() of line 103
ChecksTarget_NotAfterRemove(f) == f.pc # "exit" /\ f.op # "remove"

\* Whether the path the body took ends in self.check_target(): every path
\* but the early `return` of a cascaded call and set_target(None)
ChecksTarget(f) == f.pc # "exit"

\* self.check_target() where the body calls it, then the lock is released
Finish(t) ==
    /\ ~ Idle(t)
    /\ exc[t] = "none"
    /\ LET f == Top(stack[t])
           s == f.set
           res == CheckTarget(cls[s], members[s], ct[s], target[s])
       IN
       /\ AtEnd(f)
       /\ IF ~ ChecksTarget(f)
          THEN UNCHANGED <<ct, target>>
          ELSE /\ ct' = [ct EXCEPT ![s] = res[1]]
               /\ target' = [target EXCEPT ![s] = res[2]]
       /\ held' = [held EXCEPT ![s] =
              @ \/ (f.pc # "exit" /\ HeldNow(cls[s], members[s], lastTarget[s]))]
       /\ Release(s)
       /\ stack' = [stack EXCEPT ![t] = Pop(@)]
       /\ snap' = [snap EXCEPT ![t] = IF Len(stack[t]) = 1 THEN <<>> ELSE @]
    /\ UNCHANGED <<members, raw, links, exclusive, cls, exc, lastTarget>>

\* An exception that leaves the body without releasing the lock
Unwind_KeepsLock(t) ==
    /\ ~ Idle(t)
    /\ exc[t] = "KeyError"
    /\ stack' = [stack EXCEPT ![t] = Pop(@)]
    /\ exc' = [exc EXCEPT ![t] = IF Len(stack[t]) = 1 THEN "none" ELSE @]
    /\ snap' = [snap EXCEPT ![t] = IF Len(stack[t]) = 1 THEN <<>> ELSE @]
    /\ UNCHANGED <<members, raw, links, exclusive, ct, target, cls,
                   lockOwner, lockCount, lastTarget, held>>

\* An exception leaves one `with self.lock` block
Unwind(t) ==
    /\ ~ Idle(t)
    /\ exc[t] = "KeyError"
    /\ Release(Top(stack[t]).set)
    /\ stack' = [stack EXCEPT ![t] = Pop(@)]
    /\ exc' = [exc EXCEPT ![t] = IF Len(stack[t]) = 1 THEN "none" ELSE @]
    /\ snap' = [snap EXCEPT ![t] = IF Len(stack[t]) = 1 THEN <<>> ELSE @]
    /\ UNCHANGED <<members, raw, links, exclusive, ct, target, cls,
                   lastTarget, held>>

----------------------------------------------------------------------------
(* Waiting for the signal *)

\* wait_for_target() without a timeout: the thread blocks on the signal of s
WaitCall(t, s) ==
    /\ Idle(t)
    /\ stack' = [stack EXCEPT ![t] =
           <<[Frame("wait", s, NoKey, "None", FALSE, None) EXCEPT !.pc = "wait"]>>]
    /\ UNCHANGED <<members, raw, links, exclusive, ct, target, lockOwner,
                   lockCount, cls, exc, snap, lastTarget, held>>

\* The blocked thread observes the signal set and returns true; the signal
\* stays set for the other waiters
WaitReturn(t) ==
    /\ ~ Idle(t)
    /\ Top(stack[t]).op = "wait"
    /\ target[Top(stack[t]).set]
    /\ stack' = [stack EXCEPT ![t] = <<>>]
    /\ UNCHANGED <<members, raw, links, exclusive, ct, target, lockOwner,
                   lockCount, cls, exc, snap, lastTarget, held>>

----------------------------------------------------------------------------
(* The operations that take no lock *)

\* unlink(): line 109
Unlink(t, s, k) ==
    /\ Idle(t)
    /\ exclusive' = [exclusive EXCEPT ![s] = @ \cup {k}]
    /\ UNCHANGED <<members, raw, links, ct, target, lockOwner, lockCount,
                   cls, stack, exc, snap, lastTarget, held>>

\* relink(): line 115; set.remove raises KeyError when k is not excluded
Relink(t, s, k) ==
    /\ Idle(t)
    /\ k \in exclusive[s]
    /\ exclusive' = [exclusive EXCEPT ![s] = @ \ {k}]
    /\ UNCHANGED <<members, raw, links, ct, target, lockOwner, lockCount,
                   cls, stack, exc, snap, lastTarget, held>>

\* connect() that also copies the members it holds to the set it links
Connect_Synchronises(t, s, l) ==
    /\ Idle(t)
    /\ Len(links[s]) < MaxLinks
    /\ links' = [links EXCEPT ![s] = Append(@, l)]
    /\ members' = [members EXCEPT ![l] = @ \cup members[s]]
    /\ UNCHANGED <<raw, exclusive, ct, target, lockOwner, lockCount,
                   cls, stack, exc, snap, lastTarget, held>>

\* connect(): line 123
Connect(t, s, l) ==
    /\ Idle(t)
    /\ Len(links[s]) < MaxLinks
    /\ links' = [links EXCEPT ![s] = Append(@, l)]
    /\ UNCHANGED <<members, raw, exclusive, ct, target, lockOwner, lockCount,
                   cls, stack, exc, snap, lastTarget, held>>

\* list.remove(x): drops the first occurrence
RemoveFirst(q, x) ==
    LET i == CHOOSE j \in 1..Len(q) : q[j] = x /\ \A h \in 1..(j - 1) : q[h] # x
    IN SubSeq(q, 1, i - 1) \o SubSeq(q, i + 1, Len(q))

\* disconnect(): line 126; list.remove raises ValueError when l is not linked
Disconnect(t, s, l) ==
    /\ Idle(t)
    /\ \E j \in 1..Len(links[s]) : links[s][j] = l
    /\ links' = [links EXCEPT ![s] = RemoveFirst(@, l)]
    /\ UNCHANGED <<members, raw, exclusive, ct, target, lockOwner, lockCount,
                   cls, stack, exc, snap, lastTarget, held>>

----------------------------------------------------------------------------------------------------------------------------------------
(* IPaddrSet.add / remove with a decoded message (nlmsg) *)

AF_INET == 2
AF_INET6 == 10

\* Three messages: an IPv4 address with a peer, an IPv6 link-local address,
\* and a message of a family _get_addr_nla has no branch for.  An attribute
\* the message lacks is None, as get_attr returns it.
AddrPeer == <<"1", "0", ".", "0", ".", "0", ".", "9">>
Msgs ==
    { [family |-> AF_INET, local |-> KeyV4[1], address |-> AddrPeer,
       broadcast |-> None, flags |-> 128, prefixlen |-> 24],
      [family |-> AF_INET6, local |-> None, address |-> KeyLL[1],
       broadcast |-> None, flags |-> 128, prefixlen |-> 64],
      [family |-> 17, local |-> KeyV4[1], address |-> KeyV4[1],
       broadcast |-> None, flags |-> 128, prefixlen |-> 24] }

\* IPaddrSet._get_addr_nla: a function without a final return yields None
get_addr_nla(addr) ==
    IF addr.family = AF_INET THEN <<addr.local, addr.prefixlen>>
    ELSE IF addr.family = AF_INET6 THEN <<addr.address, addr.prefixlen>>
    ELSE None

\* The payload record of lines 152-156
MsgRaw(addr) ==
    [local |-> addr.local, broadcast |-> addr.broadcast,
     address |-> addr.address, flags |-> addr.flags,
     prefixlen |-> addr.prefixlen]

\* IPaddrSet.add(msg): lines 151-157
AddMsgCall(t, s, addr) ==
    /\ Idle(t)
    /\ cls[s] = "IPaddrSet"
    /\ snap' = [snap EXCEPT ![t] = Some(Snapshot)]
    /\ EnterFrame(t, Frame("add", s, get_addr_nla(addr), MsgRaw(addr), FALSE, None), <<>>)

\* IPaddrSet.remove(msg): lines 163-164
RemoveMsgCall(t, s, addr) ==
    /\ Idle(t)
    /\ cls[s] = "IPaddrSet"
    /\ snap' = [snap EXCEPT ![t] = Some(Snapshot)]
    /\ EnterFrame(t, Frame("remove", s, get_addr_nla(addr), "None", FALSE, None), <<>>)

----------------------------------------------------------------------------
(* Specifications.  Each one is a set of callers: which threads call which *)
(* operations on which sets with which arguments.                          *)

LinkedSetOnly == cls = [s \in AllSets |-> "LinkedSet"]
EitherClass ==
    cls \in {[s \in AllSets |-> "LinkedSet"], [s \in AllSets |-> "IPaddrSet"]}

\* One thread; A is connected to B; targets are declared on B, which is
\* mutated directly and by cascade from A.
Init == TypeInit /\ EitherClass

Next ==
    \/ \E s \in {"A", "B"}, k \in Keys : AddCall(1, s, k, "None")
    \/ \E s \in {"A", "B"}, k \in Keys : RemoveCall(1, s, k)
    \/ \E v \in TargetValues : SetTargetCall(1, "B", v)
    \/ NestedEnter(1)
    \/ AddLoop(1)
    \/ RemoveLoop(1)
    \/ Finish(1)
    \/ Unwind(1)
    \/ \E k \in Keys : Unlink(1, "B", k)
    \/ \E k \in Keys : Relink(1, "B", k)
    \/ Connect(1, "A", "B")
    \/ Disconnect(1, "A", "B")

Spec == Init /\ [][Next]_vars

\* One thread, one set of either class, three address keys.
NextAddr ==
    \/ \E k \in AddrKeys : AddCall(1, "B", k, "None")
    \/ \E k \in AddrKeys : RemoveCall(1, "B", k)
    \/ \E T \in SUBSET AddrKeys : SetTargetCall(1, "B", Some(T))
    \/ Finish(1)
    \/ Unwind(1)

SpecAddr == Init /\ [][NextAddr]_vars

\* One thread; the chain A -> B -> C is built by connect; keys are excluded
\* on B and C; one key.
InitLinkedSet == TypeInit /\ LinkedSetOnly

NextChain ==
    \/ \E s \in AllSets, r \in Raws : AddCall(1, s, KeyV4, r)
    \/ \E s \in AllSets : RemoveCall(1, s, KeyV4)
    \/ \E v \in {None, Some({}), Some({KeyV4})} : SetTargetCall(1, "B", v)
    \/ NestedEnter(1)
    \/ AddLoop(1)
    \/ RemoveLoop(1)
    \/ Finish(1)
    \/ Unwind(1)
    \/ \E s \in {"B", "C"} : Unlink(1, s, KeyV4)
    \/ \E s \in {"B", "C"} : Relink(1, s, KeyV4)
    \/ Connect(1, "A", "B")
    \/ Connect(1, "B", "C")

SpecChain == InitLinkedSet /\ [][NextChain]_vars

\* One thread; B is connected to A while both are empty and is then only
\* reached by cascade from A; payloads are passed.
MirrorConnect ==
    /\ members["A"] = {}
    /\ members["B"] = {}
    /\ Connect(1, "A", "B")

NextMirror ==
    \/ \E k \in Keys, r \in Raws : AddCall(1, "A", k, r)
    \/ \E k \in Keys : RemoveCall(1, "A", k)
    \/ NestedEnter(1)
    \/ AddLoop(1)
    \/ RemoveLoop(1)
    \/ Finish(1)
    \/ Unwind(1)
    \/ MirrorConnect

SpecMirror == InitLinkedSet /\ [][NextMirror]_vars

\* Two threads; A is connected to B; both sets are mutated directly; a
\* target is declared on A; one key.
NextConc ==
    \/ \E t \in Callers, s \in {"A", "B"} : AddCall(t, s, KeyV4, "None")
    \/ \E t \in Callers, s \in {"A", "B"} : RemoveCall(t, s, KeyV4)
    \/ \E t \in Callers, v \in {None, Some({}), Some({KeyV4})} :
           SetTargetCall(t, "A", v)
    \/ \E t \in Callers : NestedEnter(t)
    \/ \E t \in Callers : AddLoop(t)
    \/ \E t \in Callers : RemoveLoop(t)
    \/ \E t \in Callers : Finish(t)
    \/ \E t \in Callers : Unwind(t)
    \/ \E t \in Callers : Connect(t, "A", "B")

SpecConc == InitLinkedSet /\ [][NextConc]_vars

\* One thread; the address set B, connected to C, is given messages.
InitIPaddrSet == TypeInit /\ cls = [s \in AllSets |-> "IPaddrSet"]

NextMsg ==
    \/ \E m \in Msgs : AddMsgCall(1, "B", m)
    \/ \E m \in Msgs : RemoveMsgCall(1, "B", m)
    \/ NestedEnter(1)
    \/ AddLoop(1)
    \/ RemoveLoop(1)
    \/ Finish(1)
    \/ Unwind(1)
    \/ Connect(1, "B", "C")

SpecMsg == InitIPaddrSet /\ [][NextMsg]_vars

\* One thread; A and B are connected in every way, to themselves, to each
\* other in both directions and more than once; one key, excluded or not.
\* A thread that is inside a call goes on running.
Running(t) ==
    NestedEnter(t) \/ AddLoop(t) \/ RemoveLoop(t) \/ Finish(t) \/ Unwind(t)

NextCycle ==
    \/ \E s \in {"A", "B"} : AddCall(1, s, KeyV4, "None")
    \/ \E s \in {"A", "B"} : RemoveCall(1, s, KeyV4)
    \/ NestedEnter(1)
    \/ AddLoop(1)
    \/ RemoveLoop(1)
    \/ Finish(1)
    \/ Unwind(1)
    \/ \E s \in {"A", "B"} : Unlink(1, s, KeyV4)
    \/ \E s \in {"A", "B"} : Relink(1, s, KeyV4)
    \/ \E s \in {"A", "B"}, l \in {"A", "B"} : Connect(1, s, l)

SpecCycle == InitLinkedSet /\ [][NextCycle]_vars /\ WF_vars(Running(1))

\* Two threads; the links are built among A -> B, A -> C and B -> C, so the
\* graph stays acyclic and A and B share the descendant C; both threads call
\* add and remove on A and B and declare a target on C; one key.  A thread
\* inside a call goes on running, and a thread waiting for a lock that is
\* released again and again gets it.
DagLinks == {<<"A", "B">>, <<"A", "C">>, <<"B", "C">>}

\* Thread 1 calls on the root A, thread 2 on the root B
DagCallers == {<<1, "A">>, <<2, "B">>}

\* The graph is built before the sets are used, each link once
DagConnect(s, l) ==
    /\ \A t \in AllThreads : Idle(t)
    /\ \A x \in AllSets : raw[x] = EmptyDict /\ lastTarget[x] = None
    /\ \A j \in 1..Len(links[s]) : links[s][j] # l
    /\ Connect(1, s, l)

Proceeds(t) == AddLoop(t) \/ RemoveLoop(t) \/ Finish(t) \/ Unwind(t)

NextDag ==
    \/ \E c \in DagCallers : AddCall(c[1], c[2], KeyV4, "None")
    \/ \E c \in DagCallers : RemoveCall(c[1], c[2], KeyV4)
    \/ SetTargetCall(2, "C", Some({KeyV4}))
    \/ \E op \in {"add", "remove"} : PendingCall(2, op, "B", KeyV4, None)
    \/ PendingCall(2, "set_target", "C", NoKey, Some({KeyV4}))
    \/ \E t \in Callers : NestedEnter(t)
    \/ \E t \in Callers : AddLoop(t)
    \/ \E t \in Callers : RemoveLoop(t)
    \/ \E t \in Callers : Finish(t)
    \/ \E t \in Callers : Unwind(t)
    \/ \E e \in DagLinks : DagConnect(e[1], e[2])

FairDag ==
    \A t \in Callers : WF_vars(Proceeds(t)) /\ SF_vars(NestedEnter(t))

SpecDag == InitLinkedSet /\ [][NextDag]_vars /\ FairDag

\* Two calling threads and two waiting threads; A is connected to B; the
\* callers add the key to A and remove it from A and from B, thread 1
\* declares targets on A, and threads 3 and 4 wait for the signal of A.
\* Running threads go on running, a thread waiting for a lock that is
\* released again and again gets it, and so does a waiter whose signal is set.
NextWait ==
    \/ \E t \in Callers : AddCall(t, "A", KeyV4, "None")
    \/ \E t \in Callers, s \in {"A", "B"} : RemoveCall(t, s, KeyV4)
    \/ \E v \in {None, Some({})} : SetTargetCall(1, "A", v)
    \/ \E t \in Callers : NestedEnter(t)
    \/ \E t \in Callers : AddLoop(t)
    \/ \E t \in Callers : RemoveLoop(t)
    \/ \E t \in Callers : Finish(t)
    \/ \E t \in Callers : Unwind(t)
    \/ MirrorConnect
    \/ \E t \in Waiters : WaitCall(t, "A")
    \/ \E t \in Waiters : WaitReturn(t)

FairWait ==
    /\ \A t \in Callers : WF_vars(Proceeds(t)) /\ SF_vars(NestedEnter(t))
    /\ \A t \in Waiters : SF_vars(WaitReturn(t))

SpecWait == InitLinkedSet /\ [][NextWait]_vars /\ FairWait

----------------------------------------------------------------------------
(* Vocabulary of the properties *)

\* The step in which thread t's direct call returns (normally or by raising)
Returns(t) == stack[t] # <<>> /\ stack'[t] = <<>>

\* The direct call thread t is running, and the state it started from
Call(t) == stack[t][1]
Pre(t) == snap[t][1]

\* The step in which the direct call returns without an exception
ReturnsOk(t) == Returns(t) /\ exc[t] = "none"

\* Set s has the same members, payloads, target and signal as in state p
SameAs(p, s) ==
    /\ members'[s] = p.members[s]
    /\ raw'[s] = p.raw[s]
    /\ ct'[s] = p.ct[s]
    /\ target'[s] = p.target[s]

Quiet(s) == lockOwner[s] = 0

AllIdle == \A t \in AllThreads : Idle(t)

----------------------------------------------------------------------------
(* C1 *)

C1_Cleared ==
    \A t \in AllThreads :
        (stack[t] # <<>> /\ Top(stack[t]).op = "set_target"
                         /\ Top(stack[t]).value # None)
        => /\ ~ target[Top(stack[t]).set]
           /\ ct[Top(stack[t]).set] = Top(stack[t]).value

C1_Return(t) ==
    (Returns(t) /\ Call(t).op = "set_target" /\ Call(t).value # None)
    => LET s == Call(t).set
           T == Call(t).value[1]
       IN IF Filtered(cls[s], Pre(t).members[s]) = Filtered(cls[s], T)
          THEN target'[s] /\ ct'[s] = None
          ELSE ~ target'[s] /\ ct'[s] = Some(T)

\* C1: when set_target(T), T not None, returns, the signal is set and no
\* target is active if filtered(members) = filtered(T) held when it was
\* called, and otherwise the signal is clear and T is the active target;
\* inside the call the old signal is cleared before the comparison is made.
C1_SetTargetDetectsReached ==
    [] C1_Cleared /\ [][\A t \in AllThreads : C1_Return(t)]_vars

\* set_target(T) is about to compare, and the comparison is true of a
\* non-empty set: the target was already reached when it was declared
C1_Witness ==
    \E t \in AllThreads :
        /\ stack[t] # <<>>
        /\ Top(stack[t]).op = "set_target"
        /\ Top(stack[t]).pc = "check"
        /\ Pre(t).target[Top(stack[t]).set]
        /\ members[Top(stack[t]).set] # {}
        /\ Filtered(cls[Top(stack[t]).set], members[Top(stack[t]).set])
             = Filtered(cls[Top(stack[t]).set], Top(stack[t]).value[1])

----------------------------------------------------------------------------
(* C2 *)

\* C2: whenever no call is executing on S, the signal of S is set exactly if
\* the latest set_target declared a target T (not None) and the filtered
\* comparison held at the end of that set_target or of a later add/remove on
\* S; and a target that is still active is not equal to the members.
C2_SignalIffHeld ==
    \A s \in AllSets :
        Quiet(s) =>
            /\ target[s] <=> (lastTarget[s] # None /\ held[s])
            /\ (lastTarget[s] # None /\ ~ target[s])
               => /\ ct[s] = lastTarget[s]
                  /\ ~ HeldNow(cls[s], members[s], lastTarget[s])
            /\ target[s] => ct[s] = None

\* A cascaded add from A has just set the signal of B, inside A.add()
C2_Witness ==
    /\ stack[1] # <<>>
    /\ Len(stack[1]) = 1
    /\ Call(1).op = "add"
    /\ Call(1).set = "A"
    /\ Quiet("B")
    /\ target["B"]
    /\ ~ Pre(1).target["B"]
    /\ Pre(1).ct["B"] # None

----------------------------------------------------------------------------
(* C9 *)

\* A step in which some thread's set_target takes the lock of s
SetTargetStep(s) ==
    \E t \in AllThreads :
        /\ Idle(t)
        /\ stack'[t] # <<>>
        /\ stack'[t][1].op = "set_target"
        /\ stack'[t][1].set = s

C9_Reached == \A s \in AllSets : target[s] => ct[s] = None

\* C9: once the signal is set the target is absent, and every step that is
\* not a set_target on the set leaves the target absent and the signal set.
C9_OneShot ==
    /\ [] C9_Reached
    /\ [][\A s \in AllSets :
            (target[s] /\ ~ SetTargetStep(s)) => (target'[s] /\ ct'[s] = None)]_vars

\* The signal of B is set, and B was mutated since: it no longer equals the
\* target that was reached
C9_Witness ==
    /\ AllIdle
    /\ target["B"]
    /\ ct["B"] = None
    /\ lastTarget["B"] # None
    /\ ~ HeldNow(cls["B"], members["B"], lastTarget["B"])

----------------------------------------------------------------------------
(* C6 *)

C6_Return(t) ==
    (Returns(t) /\ Call(t).op = "remove")
    => LET s == Call(t).set
           k == Call(t).key
           p == Pre(t)
       IN IF k \notin p.members[s]
          THEN /\ exc[t] = "KeyError"
               /\ \A x \in AllSets : SameAs(p, x)
          ELSE /\ exc[t] = "none"
               /\ k \notin members'[s]
               /\ \A x \in AllSets \ {s} :
                      k \notin p.members[x] => members'[x] = p.members[x]

\* C6: a direct remove(k) on S with k not in S raises KeyError and leaves
\* every set as it was, also a linked set that holds k; a direct remove(k)
\* with k in S raises nothing, removes k from S and leaves the members of
\* every set that lacks k as they were.
C6_RemoveErrors == [][\A t \in AllThreads : C6_Return(t)]_vars

\* A.remove(k) is raising KeyError while the linked set B holds k
C6_Witness ==
    \E t \in AllThreads :
        /\ stack[t] # <<>>
        /\ exc[t] = "KeyError"
        /\ Call(t).op = "remove"
        /\ Call(t).set = "A"
        /\ links["A"] # <<>>
        /\ Call(t).key \in members["B"]

----------------------------------------------------------------------------
(* C7 *)

\* C7: whenever no call is running, every key with a payload entry is a
\* member of the set.
C7_PayloadKeysAreMembers ==
    AllIdle => \A s \in AllSets : DOMAIN raw[s] \subseteq members[s]

----------------------------------------------------------------------------
(* C3 *)

\* The links form the chain A -> B -> C and nothing else
IsChain(lk) == lk["A"] = <<"B">> /\ lk["B"] = <<"C">> /\ lk["C"] = <<>>

\* A direct A.add(k) returns, having started on the chain
ChainAddReturns(t) ==
    /\ ReturnsOk(t)
    /\ Call(t).op = "add"
    /\ Call(t).set = "A"
    /\ IsChain(Pre(t).links)

C3_OriginalReturn(t) ==
    ChainAddReturns(t)
    => LET k == Call(t).key
           p == Pre(t)
       IN IF k \in p.exclusive["B"]
          THEN SameAs(p, "B") /\ SameAs(p, "C")
          ELSE /\ k \in members'["B"]
               /\ IF k \in p.exclusive["C"]
                  THEN SameAs(p, "C")
                  ELSE k \in members'["C"]

\* C3 as stated: when a direct A.add(k) on a chain A -> B -> C returns, k is
\* in B and in C, unless k is excluded on B (B and C unchanged) or on C (C
\* unchanged).
C3_Original == [][\A t \in AllThreads : C3_OriginalReturn(t)]_vars

C3_AmendedReturn(t) ==
    ChainAddReturns(t)
    => LET k == Call(t).key
           p == Pre(t)
       IN IF k \in p.members["A"] \/ k \in p.exclusive["B"]
          THEN SameAs(p, "B") /\ SameAs(p, "C")
          ELSE /\ k \in members'["B"]
               /\ IF k \in p.members["B"] \/ k \in p.exclusive["C"]
                  THEN SameAs(p, "C")
                  ELSE k \in members'["C"]

\* C3 amended: when a direct A.add(k) on a chain A -> B -> C returns and k
\* was not yet in A, k is in B unless k is excluded on B (then B and C are
\* unchanged), and k is in C if moreover k was not yet in B, unless k is
\* excluded on C (then C is unchanged); an add of a key A already holds, or
\* that B already holds, is not passed on (B and C, or C, unchanged).
C3_CascadeReachesNewKeys == [][\A t \in AllThreads : C3_AmendedReturn(t)]_vars

\* A.add(k) on the chain has inserted k in A, B and C and is about to return
C3_Witness ==
    /\ stack[1] # <<>>
    /\ Len(stack[1]) = 1
    /\ Call(1).op = "add"
    /\ Call(1).set = "A"
    /\ Call(1).idx = 2
    /\ IsChain(links)
    /\ Call(1).key \notin Pre(1).members["B"]
    /\ Call(1).key \notin Pre(1).members["C"]
    /\ Call(1).key \in members["B"]
    /\ Call(1).key \in members["C"]

----------------------------------------------------------------------------
(* C4 *)

C4_Mirror ==
    (AllIdle /\ links["A"] # <<>>)
    => /\ members["B"] = members["A"]
       /\ \A k \in members["A"] : raw["B"][k] = raw["A"][k]

C4_Return(t) ==
    (ReturnsOk(t) /\ Call(t).op = "add" /\ Call(t).set = "A"
                  /\ Call(t).key \notin Pre(t).members["A"])
    => /\ raw'["A"][Call(t).key] = Call(t).raw
       /\ Pre(t).links["A"] # <<>> => raw'["B"][Call(t).key] = Call(t).raw

\* C4: when B was connected to A while both were empty and is reached only
\* by cascade from A, then after every completed add or remove on A the
\* members of B are those of A and B stores for each member the payload A
\* stores, which is the payload passed to the add that inserted the key.
C4_MirrorWithPayload ==
    [] C4_Mirror /\ [][\A t \in AllThreads : C4_Return(t)]_vars

\* B mirrors A, which holds a key with the payload record
C4_Witness ==
    /\ AllIdle
    /\ links["A"] # <<>>
    /\ KeyV4 \in members["B"]
    /\ raw["B"][KeyV4] = "r1"
    /\ KeyLL \notin members["B"]
    /\ KeyLL \in DOMAIN raw["B"]

----------------------------------------------------------------------------
(* C5 *)

\* A cascaded call arrives at a set that excludes its key
C5_Arrives(t) ==
    /\ stack[t] # <<>>
    /\ Top(stack[t]).pc = "enter"
    /\ Top(stack[t]).cascade
    /\ Top(stack[t]).key \in exclusive[Top(stack[t]).set]
    /\ stack'[t] # stack[t]

\* The thread's next step after the arrival
C5_Leaves(t) ==
    /\ stack[t] # <<>>
    /\ Top(stack[t]).pc = "exit"
    /\ Top(stack[t]).cascade
    /\ stack'[t] # stack[t]

C5_Cascaded(t) ==
    /\ C5_Arrives(t)
       => /\ SameAs(Snapshot, Top(stack[t]).set)
          /\ stack'[t] = SetTop(stack[t], [Top(stack[t]) EXCEPT !.pc = "exit"])
    /\ C5_Leaves(t)
       => /\ SameAs(Snapshot, Top(stack[t]).set)
          /\ stack'[t] = Pop(stack[t])

C5_Direct(t) ==
    (Returns(t) /\ Call(t).op \in {"add", "remove"})
    => LET s == Call(t).set
           k == Call(t).key
           p == Pre(t)
       IN /\ \A x \in AllSets \ {s} : k \in p.exclusive[x] => SameAs(p, x)
          /\ (s = "A" /\ IsChain(p.links) /\ k \in p.exclusive["B"])
             => SameAs(p, "C")
          /\ (Call(t).op = "add" /\ k \in p.exclusive[s])
             => /\ k \in members'[s]
                /\ \A j \in 1..Len(p.links[s]) :
                      (k \notin p.members[s] /\ k \notin p.exclusive[p.links[s][j]])
                      => k \in members'[p.links[s][j]]
          /\ (Call(t).op = "remove" /\ k \in p.exclusive[s] /\ k \in p.members[s])
             => exc[t] = "none" /\ k \notin members'[s]

\* C5: an add(k) or remove(k) that arrives through a link at a set that
\* excludes k leaves the set's members, payloads, target and signal as they
\* were and is not passed on to the set's own links; a direct add(k) on a set
\* that excludes k inserts k and passes it on, and a direct remove(k) of a
\* member removes it.
C5_ExclusionOnlyCascaded ==
    [][\A t \in AllThreads : C5_Cascaded(t) /\ C5_Direct(t)]_vars

\* A direct B.add(k), k excluded on B, has inserted k in B and in C
C5_Witness ==
    /\ stack[1] # <<>>
    /\ Len(stack[1]) = 1
    /\ Call(1).op = "add"
    /\ Call(1).set = "B"
    /\ Call(1).key \in exclusive["B"]
    /\ Call(1).key \notin Pre(1).members["B"]
    /\ Call(1).key \notin Pre(1).members["C"]
    /\ Call(1).key \in members["B"]
    /\ Call(1).key \in members["C"]

----------------------------------------------------------------------------
(* C8 *)

\* C8: whenever no thread holds the lock of S and S has an active target T,
\* filtered(members(S)) differs from filtered(T).
C8_NoUnevaluatedChange ==
    \A s \in AllSets :
        (Quiet(s) /\ ct[s] # None)
        => Filtered(cls[s], members[s]) # Filtered(cls[s], ct[s][1])

----------------------------------------------------------------------------
(* C10 *)

\* The keys of AddrKeys that are link-local with prefix length 64
LinkLocal64 == {KeyLL}

\* What the comparison looks at, by class
Compared(c, S) == IF c = "IPaddrSet" THEN S \ LinkLocal64 ELSE S

C10_Return(t) ==
    Returns(t)
    => LET s == Call(t).set
           k == Call(t).key
           p == Pre(t)
           T == IF Call(t).op = "set_target" THEN Call(t).value ELSE p.ct[s]
       IN /\ (exc[t] = "none" /\ T # None)
             => (target'[s]
                 <=> Compared(cls[s], members'[s]) = Compared(cls[s], T[1]))
          /\ Call(t).op = "add"
             => exc[t] = "none" /\ members'[s] = p.members[s] \cup {k}
          /\ Call(t).op = "remove"
             => IF k \in p.members[s]
                THEN exc[t] = "none" /\ members'[s] = p.members[s] \ {k}
                ELSE exc[t] = "KeyError" /\ members'[s] = p.members[s]
          /\ Call(t).op = "set_target" => members'[s] = p.members[s]

\* The example: {(fe80::1, 64), (10.0.0.5, 24)} against {(10.0.0.5, 24)}
C10_Example ==
    \A s \in AllSets :
        (Quiet(s) /\ members[s] = {KeyLL, KeyV4} /\ lastTarget[s] = Some({KeyV4}))
        => (target[s] <=> (cls[s] = "IPaddrSet" \/ held[s]))

\* C10: the address set decides convergence on members and target with the
\* link-local /64 keys left out of both, the base set on all of them; add,
\* remove and membership treat link-local keys like any other key.
C10_FilterOnlyInComparison ==
    [] C10_Example /\ [][\A t \in AllThreads : C10_Return(t)]_vars

\* The address set holds the link-local key and has converged on the target
\* without it
C10_Witness ==
    /\ AllIdle
    /\ cls["B"] = "IPaddrSet"
    /\ members["B"] = {KeyLL, KeyV4}
    /\ lastTarget["B"] = Some({KeyV4})
    /\ target["B"]


----------------------------------------------------------------------------
(* C11 *)

C11_Return(t) ==
    (Returns(t) /\ Call(t).op \in {"add", "remove"} /\ Call(t).key = None)
    => /\ exc[t] = "none"
       /\ \A x \in AllSets : SameAs(Pre(t), x)

\* C11: a message-based add or remove whose message has a family other than
\* AF_INET and AF_INET6 returns without error and leaves members, payloads,
\* linked sets, target and signal as they were.
C11_UnsupportedFamilyIgnored == [][\A t \in AllThreads : C11_Return(t)]_vars


----------------------------------------------------------------------------
(* C12 *)

\* Thread t enters add(k, ...) on a set that holds k: by a direct call or by
\* a cascaded call taking the lock; the frame that enters
C12_Entering(t) ==
    IF Idle(t) THEN stack'[t][1] ELSE Top(stack[t])

C12_EntersDuplicate(t) ==
    /\ \/ Idle(t) /\ Len(stack'[t]) = 1
       \/ ~ Idle(t) /\ Top(stack[t]).pc = "enter" /\ stack'[t] # stack[t]
    /\ C12_Entering(t).op = "add"
    /\ C12_Entering(t).key \in members[C12_Entering(t).set]

\* The body takes neither the insertion branch nor the loop over the links
C12_Body(t) ==
    C12_EntersDuplicate(t)
    => LET f == C12_Entering(t) IN
       /\ members' = members
       /\ raw' = raw
       /\ exc'[t] = "none"
       /\ Len(stack'[t]) = (IF Idle(t) THEN 1 ELSE Len(stack[t]))
       /\ Top(stack'[t]).pc =
              (IF f.cascade /\ f.key \in exclusive[f.set] THEN "exit" ELSE "check")

\* From there the call only evaluates the target and returns
C12_Rest(t) ==
    (~ Idle(t) /\ Top(stack[t]).op = "add" /\ Top(stack[t]).pc \in {"check", "exit"}
       /\ stack'[t] # stack[t])
    => /\ stack'[t] = Pop(stack[t])
       /\ members' = members
       /\ raw' = raw
       /\ \A x \in AllSets \ {Top(stack[t]).set} : ct'[x] = ct[x] /\ target'[x] = target[x]

\* The whole direct call
C12_Return(t) ==
    (Returns(t) /\ Call(t).op = "add" /\ Call(t).key \in Pre(t).members[Call(t).set])
    => /\ exc[t] = "none"
       /\ \A x \in AllSets : members'[x] = Pre(t).members[x] /\ raw'[x] = Pre(t).raw[x]
       /\ \A x \in AllSets \ {Call(t).set} : SameAs(Pre(t), x)

\* C12: add(k, payload') on a set that already holds k, direct or cascaded,
\* leaves the set's members and its payload for k unchanged, raises no error
\* and calls add on no linked set (no set's members or payloads change, so a
\* linked set that lacks k still lacks it); it only evaluates the set's target.
C12_DuplicateAddAbsorbed ==
    [][\A t \in AllThreads : C12_Body(t) /\ C12_Rest(t) /\ C12_Return(t)]_vars

\* A direct add of a key A holds, with another payload than the stored one,
\* has run its body while the linked set B lacks the key
C12_Witness ==
    /\ ~ Idle(1)
    /\ Len(stack[1]) = 1
    /\ Call(1).op = "add" /\ Call(1).set = "A" /\ Call(1).pc = "check"
    /\ Call(1).key \in Pre(1).members["A"]
    /\ Call(1).raw # Pre(1).raw["A"][Call(1).key]
    /\ links["A"] = <<"B">>
    /\ Call(1).key \notin members["B"]


----------------------------------------------------------------------------
(* C13 *)

\* x occurs in the list q
Linked(q, x) == \E j \in 1..Len(q) : q[j] = x

\* A step that changes a link list is a connect or a disconnect; it changes
\* nothing else of any set
C13_Frame ==
    links' # links
    => /\ members' = members
       /\ raw' = raw
       /\ exclusive' = exclusive
       /\ ct' = ct
       /\ target' = target

\* connect appends one occurrence; disconnect drops the first occurrence
C13_LinkStep(s) ==
    links'[s] # links[s]
    => \E l \in AllSets :
          \/ links'[s] = Append(links[s], l)
          \/ Linked(links[s], l) /\ links'[s] = RemoveFirst(links[s], l)

\* What disconnect(other) leaves of other in the list
C13_DisconnectLeavesNone(s) ==
    \A l \in AllSets :
        (Linked(links[s], l) /\ Len(links'[s]) < Len(links[s])
           /\ links'[s] = RemoveFirst(links[s], l))
        => ~ Linked(links'[s], l)

\* A direct call on A changes B exactly when B occurs in A's list at the call
C13_Return(t) ==
    (ReturnsOk(t) /\ Call(t).op \in {"add", "remove"} /\ Call(t).set = "A")
    => LET k == Call(t).key
           p == Pre(t)
       IN IF ~ Linked(p.links["A"], "B")
          THEN SameAs(p, "B")
          ELSE /\ (Call(t).op = "add" /\ k \notin p.members["A"]
                     /\ k \notin p.exclusive["B"]) => k \in members'["B"]
               /\ (Call(t).op = "remove" /\ k \notin p.exclusive["B"])
                     => k \notin members'["B"]

----------------------------------------------------------------------------
(* C14 *)

\* While the latest set_target on s declared no target, s has no active
\* target and its signal is clear, whatever add and remove did since
C14_NoTargetNoSignal ==
    \A s \in AllSets : lastTarget[s] = None => ct[s] = None /\ ~ target[s]

\* The signal of s is only set by a check that finds the members equal to
\* the latest declared target, which is then not None
C14_SignalStep(s) ==
    (~ target[s] /\ target'[s])
    => /\ lastTarget[s] # None
       /\ HeldNow(cls[s], members[s], lastTarget[s])

\* C14: set_target(None) deactivates the active target and clears the
\* signal, and no add or remove sets the signal afterwards until a later
\* set_target declares a target other than None and that target is reached.
C14_AbsentTargetDeactivates ==
    /\ [] C14_NoTargetNoSignal
    /\ [][\A s \in AllSets : C14_SignalStep(s)]_vars

\* set_target(None) has run on B while B's signal was set
C14_Witness ==
    /\ ~ Idle(1)
    /\ Call(1).op = "set_target"
    /\ Call(1).set = "B"
    /\ Call(1).value = None
    /\ Call(1).pc = "exit"
    /\ Pre(1).target["B"]
    /\ ~ target["B"]


----------------------------------------------------------------------------
(* C15 *)

\* Thread w is blocked waiting for the signal of s
Waiting(w, s) == ~ Idle(w) /\ Top(stack[w]).op = "wait" /\ Top(stack[w]).set = s

\* The members of s equal its active target: some add, remove or set_target
\* has made them equal and the target has not been found reached
ReachedUnseen(s) ==
    ct[s] # None /\ Filtered(cls[s], members[s]) = Filtered(cls[s], ct[s][1])

\* C15: once an add, remove or set_target has made the members of a set
\* equal to its active target, every thread waiting for the set's signal
\* eventually returns true.  The signal is set only inside a call, so the
\* waiters return only if no call leaves the set in that state: when a
\* thread waits and no call is in progress (a run in which the callers make
\* no further call is fair), the members differ from the active target.
C15_WaitersWoken ==
    \A s \in AllSets :
        ((\E w \in Waiters : Waiting(w, s)) /\ (\A t \in Callers : Idle(t)))
        => ~ ReachedUnseen(s)

----------------------------------------------------------------------------
(* C16 *)

\* A direct remove(k) on A leaves with KeyError; the lock of A was taken in
\* the state Pre(t) and has been held since
C16_Return(t) ==
    (Returns(t) /\ Call(t).op = "remove" /\ Call(t).set = "A"
       /\ Call(t).cascade = FALSE /\ exc[t] = "KeyError")
    => /\ Call(t).key \notin Pre(t).members["A"]
       /\ members'["A"] = Pre(t).members["A"]

\* C16: under any interleaving, a direct remove(k) on A raises KeyError only
\* when k was not in A when A's lock was taken, and the error leaves A's
\* members as they were: a call that has removed k from A does not fail
\* afterwards in the cascade.
C16_RemoveFailsBeforeMutation == [][\A t \in AllThreads : C16_Return(t)]_vars


----------------------------------------------------------------------------
(* C17 *)

\* While a thread holds the lock of s (it is inside add, remove or
\* set_target on s; it cannot itself call connect or unlink meanwhile), a
\* step leaves the link list and the excluded keys of s as they are
C17_Guarded(s) ==
    lockOwner[s] # 0 => links'[s] = links[s] /\ exclusive'[s] = exclusive[s]

\* C17: while one thread is inside add, remove or set_target on S, holding
\* S's lock, no unlink, relink, connect or disconnect of another thread
\* changes S's excluded keys or S's link list.
C17_LinkOpsSerialized == [][\A s \in AllSets : C17_Guarded(s)]_vars


----------------------------------------------------------------------------
(* C18 *)

\* Only the direct call at the bottom of a thread's stack is not cascaded
C18_Flags ==
    \A t \in AllThreads : \A i \in 1..Len(stack[t]) :
        stack[t][i].cascade = (i > 1)

\* A cascaded call on a set that excludes the key leaves the set alone
C18_HonoursExcluded(t) ==
    (~ Idle(t) /\ Top(stack[t]).pc = "enter" /\ stack'[t] # stack[t]
       /\ Top(stack[t]).key \in exclusive[Top(stack[t]).set])
    => members' = members /\ raw' = raw

\* Within one direct call the members of a set change at most once: a step
\* that changes them starts from what they were when the call was made
C18_AtMostOnce(t) ==
    \A x \in AllSets :
        (~ Idle(t) /\ members'[x] # members[x]) => members[x] = Pre(t).members[x]

\* C18: whatever the links (cycles, self-links, a set connected twice), a
\* direct add or remove by one thread terminates, changes the members of
\* each set at most once, and makes every nested call with the cascaded flag,
\* so that the nested call honours the excluded keys.
C18_CyclesTerminate ==
    /\ [] C18_Flags
    /\ [][\A t \in AllThreads : C18_HonoursExcluded(t) /\ C18_AtMostOnce(t)]_vars
    /\ [] (~ Idle(1) => <> Idle(1))

\* A direct call on A has come back to A through B, on a graph where A is
\* also linked to itself and B is linked twice
C18_Witness ==
    /\ Len(stack[1]) = 3
    /\ stack[1][1].set = "A"
    /\ stack[1][2].set = "B"
    /\ stack[1][3].set = "A"
    /\ stack[1][3].pc # "enter"
    /\ lockCount["A"] = 2
    /\ Linked(links["A"], "A")
    /\ links["B"] = <<"A", "A">>


----------------------------------------------------------------------------
(* C19 *)

\* The link graph has no cycle: every link goes down the order A, B, C
Rank(s) == CASE s = "A" -> 1 [] s = "B" -> 2 [] s = "C" -> 3

Acyclic ==
    \A s \in AllSets : \A j \in 1..Len(links[s]) : Rank(s) < Rank(links[s][j])

\* Thread t is waiting in `with self.lock` for a lock another thread holds
Blocked(t) ==
    /\ ~ Idle(t)
    /\ Top(stack[t]).pc = "enter"
    /\ ~ LockFree(Top(stack[t]).set, t)

\* No deadlock: when threads are inside calls, one of them is not waiting
C19_NoDeadlock ==
    Acyclic => ((\E t \in AllThreads : ~ Idle(t))
                  => \E t \in AllThreads : ~ Idle(t) /\ ~ Blocked(t))

\* C19: on an acyclic link graph, with threads calling add, remove and
\* set_target concurrently on the sets, no deadlock is reachable, and under
\* fair scheduling every call, waiting or running, eventually returns.
C19_AcyclicNoDeadlock ==
    /\ [] C19_NoDeadlock
    /\ \A t \in AllThreads : [] (~ Idle(t) => <> Idle(t))

\* Thread 1, inside A.add, holds A and waits for B; thread 2, inside B.add,
\* holds B and has taken C, the descendant A and B share
C19_Witness ==
    /\ Len(stack[1]) = 2
    /\ stack[1][1].set = "A"
    /\ Blocked(1)
    /\ Top(stack[1]).set = "B"
    /\ Len(stack[2]) = 2
    /\ stack[2][1].set = "B"
    /\ Top(stack[2]).set = "C"
    /\ lockOwner = [A |-> 1, B |-> 2, C |-> 2]
    /\ Linked(links["A"], "C")

====
